---- MODULE Spec2Model ----
(***************************************************************************)
(* Goedel numbering of strings of the formal system PM (godel.py) and the  *)
(* helpers it rests on (util/ntheory.py, util/bijection.py,                *)
(* util/arithmetic.py).                                                    *)
(*                                                                         *)
(* Conventions.                                                            *)
(*  - A Python string is a sequence of one-character strings.  The four    *)
(*    non-ASCII constant signs are written with ASCII stand-ins: "v" for   *)
(*    the disjunction sign, ">" for the horseshoe, "E" for the existential *)
(*    quantifier and "*" for the multiplication sign.                      *)
(*  - A Python list is a sequence; index i of the program is index i + 1   *)
(*    here.  A dict is a function; its items, where the iteration order    *)
(*    matters, are a sequence of <<key, value>> pairs.                     *)
(*  - Codes (exponents) are plain integers.  A Goedel number is far beyond *)
(*    machine integers (Python integers are unbounded), so it is kept as   *)
(*    its sign and the bag of its prime factors: [sign, pf].               *)
(***************************************************************************)
EXTENDS Integers, Sequences, FiniteSets, Bags, TLC

(***************************************************************************)
(* Bounds of the model.                                                    *)
(***************************************************************************)
\* godel.py sets UPPERBOUND_OF_PRIMES = 10000; the model sieves below this.
UPPERBOUND_OF_PRIMES == 60
\* sieve(n) is applied to every n in -2 .. MaxSieveArg.
MaxSieveArg == 64
\* factor(n) is applied to every n in -MaxFactorArg .. MaxFactorArg.
MaxFactorArg == 40
\* Bijection(m) is built from every dict of at most MaxItems items.
MaxItems == 3
\* encode is applied to every string of at most MaxTokens tokens of TokenAlphabet,
MaxTokens == 3
\* to every string of at most MaxChars characters of LexAlphabet,
MaxChars == 3
\* and to such strings of fewer characters followed by up to MaxTail more.
MaxTail == 12
\* decode is applied to the products of the first DecPrimes primes, and to the
\* Goedel numbers of at most DecPositions codes of SessionCodes.
DecPrimes == 4
DecPositions == 4

(***************************************************************************)
(* util/ntheory.py                                                         *)
(***************************************************************************)
\* int(sqrt(n)) for n >= 0
ISqrt(n) == CHOOSE r \in 0..n : r * r <= n /\ (r + 1) * (r + 1) > n

\* the members of Python's range(start, stop, step), step > 0
Range(start, stop, step) == { j \in start..(stop - 1) : (j - start) % step = 0 }

\* lng = int((n / 2) - 1 + n % 2), for n >= 2
SieveLng(n) == (n \div 2) - 1 + (n % 2)

\* the marking loops of sieve: for i in range(int(sqrt(n)) >> 1), unmark the
\* indices range((i * (i + 3) << 1) + 3, lng, (i << 1) + 3) when sieve[i] is set
RECURSIVE SieveMark(_, _, _)
SieveMark(marks, i, n) ==
  IF i >= ISqrt(n) \div 2 THEN marks
  ELSE IF ~marks[i] THEN SieveMark(marks, i + 1, n)
  ELSE SieveMark([j \in DOMAIN marks |->
                    IF j \in Range(2 * (i * (i + 3)) + 3, SieveLng(n), 2 * i + 3)
                    THEN FALSE ELSE marks[j]],
                 i + 1, n)

\* sieve(n)
Sieve(n) ==
  IF n < 2 THEN << >>
  ELSE LET lng   == SieveLng(n)
           marks == SieveMark([i \in 0..lng |-> TRUE], 0, n)
           Kept(v) == marks[(v - 3) \div 2]
       IN  <<2>> \o SelectSeq([k \in 1..lng |-> 2 * (k - 1) + 3], Kept)

\* the while loop of factor
RECURSIVE FactorLoop(_, _, _)
FactorLoop(n, f, factors) ==
  IF f <= n
  THEN IF n % f = 0
       THEN FactorLoop(n \div f, f, Append(factors, f))
       ELSE FactorLoop(n, f + 1, factors)
  ELSE factors

\* factor(n)
Factor(n) == FactorLoop(n, 2, << >>)

(***************************************************************************)
(* util/bijection.py                                                       *)
(***************************************************************************)
\* dict(items): the last value given for a key wins
DictOf(items) ==
  [k \in { items[i][1] : i \in DOMAIN items } |->
     items[CHOOSE i \in DOMAIN items :
             items[i][1] = k /\ \A j \in DOMAIN items : items[j][1] = k => j <= i][2]]

\* the loop of Bijection.__init__ over mapping.items(), from item i on
RECURSIVE BijectionLoop(_, _, _)
BijectionLoop(items, i, inverse) ==
  IF i > Len(items) THEN [raised |-> FALSE, inverse |-> inverse]
  ELSE IF items[i][2] \in DOMAIN inverse
       THEN [raised |-> TRUE, inverse |-> inverse, duplicate |-> items[i][2]]
       ELSE BijectionLoop(items, i + 1, inverse @@ (items[i][2] :> items[i][1]))

\* Bijection.__init__ without the duplicate test: a later key overwrites
BijectionUnchecked(items) ==
  [raised  |-> FALSE,
   mapping |-> DictOf(items),
   inverse |-> DictOf([i \in DOMAIN items |-> <<items[i][2], items[i][1]>>])]

\* Bijection(mapping), mapping given by its items in iteration order
BijectionInit(items) ==
  LET r == BijectionLoop(items, 1, << >>)
  IN  IF r.raised
      THEN [raised |-> TRUE, error |-> "ValueError", duplicate |-> r.duplicate]
      ELSE [raised |-> FALSE, mapping |-> DictOf(items), inverse |-> r.inverse]

(***************************************************************************)
(* godel.py: configuration and module-level values                         *)
(***************************************************************************)
\* TICK is the backquote in godel.py; the module writes it as an apostrophe
TICK == "'"
NUMERICAL_VARIABLES == <<"x", "y", "z">>
SENTNTIAL_VARIABLES == <<"p", "q", "r">>
PREDICATE_VARIABLES == <<"P", "Q", "R">>

\* the dict literal handed to Bijection, in source order
ConstantSignItems ==
  << <<"~", 1>>, <<"v", 2>>, <<">", 3>>, <<"E", 4>>, <<"=", 5>>, <<"0", 6>>,
     <<"s", 7>>, <<"(", 8>>, <<")", 9>>, <<",", 10>>, <<"+", 11>>, <<"*", 12>> >>

CONSTANT_SIGNS == BijectionInit(ConstantSignItems)

PRIME == Sieve(UPPERBOUND_OF_PRIMES)

\* PRIME[i] of the program (0-based)
PrimeAt(i) == PRIME[i + 1]

\* gnum in PRIME
InPRIME(v) == \E k \in DOMAIN PRIME : PRIME[k] = v

\* max(CONSTANT_SIGNS.mapping.values())
MAX ==
  LET vals == { CONSTANT_SIGNS.mapping[k] : k \in DOMAIN CONSTANT_SIGNS.mapping }
  IN  CHOOSE m \in vals : \A v \in vals : v <= m

\* len(list(takewhile(lambda x: x < MAX, PRIME)))
PRIME_OFFSET ==
  Cardinality({ k \in DOMAIN PRIME : \A j \in 1..k : PRIME[j] < MAX })

(***************************************************************************)
(* godel.py: Lexer                                                         *)
(***************************************************************************)
constant_type  == "C"
numerical_type == "N"
sentntial_type == "S"
predicate_type == "P"

\* Lexer.match_any: the characters the class "[...]" matches
match_any(iterable) == { iterable[k] : k \in DOMAIN iterable }

\* the keys of CONSTANT_SIGNS.mapping, which Lexer.__init__ hands to match_any
ConstantChars == DOMAIN CONSTANT_SIGNS.mapping

\* Lexer.match_any_with_ticks, applied at position pos of string, where a
\* character of iterable stands: the last position of the greedy match
RECURSIVE match_any_with_ticks(_, _)
match_any_with_ticks(string, pos) ==
  IF pos < Len(string) /\ string[pos + 1] = TICK
  THEN match_any_with_ticks(string, pos + 1)
  ELSE pos

\* re.Scanner.scan from position pos on: the rules are tried in the order given,
\* and the scan stops at the first position where none matches
RECURSIVE ScannerScan(_, _, _)
ScannerScan(string, pos, toks) ==
  IF pos > Len(string) THEN [tokens |-> toks, remainder |-> << >>]
  ELSE LET c    == string[pos]
           last == match_any_with_ticks(string, pos)
           Var(type) == ScannerScan(string, last + 1,
                                    Append(toks, <<type, SubSeq(string, pos, last)>>))
       IN  IF c \in ConstantChars
           THEN ScannerScan(string, pos + 1, Append(toks, <<constant_type, <<c>>>>))
           ELSE IF c \in match_any(NUMERICAL_VARIABLES) THEN Var(numerical_type)
           ELSE IF c \in match_any(SENTNTIAL_VARIABLES) THEN Var(sentntial_type)
           ELSE IF c \in match_any(PREDICATE_VARIABLES) THEN Var(predicate_type)
           ELSE [tokens |-> toks, remainder |-> SubSeq(string, pos, Len(string))]

\* the length Lexer.scan cuts the remainder to
RemainderPreview == 10

\* Lexer.scan raising with the whole remainder
scan_uncut(string) ==
  LET r == ScannerScan(string, 1, << >>)
  IN  IF Len(r.remainder) > 0
      THEN [raised |-> TRUE, error |-> "LexicalException", near |-> r.remainder]
      ELSE [raised |-> FALSE, tokens |-> r.tokens]

\* Lexer.scan: the tokens, or the LexicalException it raises
scan(string) ==
  LET r == ScannerScan(string, 1, << >>)
  IN  IF Len(r.remainder) > 0
      THEN [raised |-> TRUE, error |-> "LexicalException",
            near |-> IF Len(r.remainder) > RemainderPreview
                     THEN SubSeq(r.remainder, 1, RemainderPreview)
                     ELSE r.remainder]
      ELSE [raised |-> FALSE, tokens |-> r.tokens]

(***************************************************************************)
(* godel.py: State                                                         *)
(***************************************************************************)
\* State.__init__
NewState ==
  [encoding |-> << >>,
   numerical_variables |-> << >>,
   sentntial_variables |-> << >>,
   predicate_variables |-> << >>]

\* "gnum = d.get(symbol); if gnum:" for a dict of codes
HasCode(d, symbol) == symbol \in DOMAIN d /\ d[symbol] # 0

\* "symbol = d.get(gnum); if symbol:" for a dict of names
HasName(d, gnum) == gnum \in DOMAIN d /\ Len(d[gnum]) > 0

\* d[key] = value
Put(d, key, value) == (key :> value) @@ d

\* len(d)
DictLen(d) == Cardinality(DOMAIN d)

\* TICK * ticks
Ticks(ticks) == [k \in 1..ticks |-> TICK]

\* State.next_var_name reusing the letters of the pool without ticks
next_var_name_no_ticks(assigned, pool) ==
  <<pool[(DictLen(assigned) % Len(pool)) + 1]>>

\* State.next_var_name
next_var_name(assigned, pool) ==
  LET poollen == Len(pool)
      count   == DictLen(assigned)
      ticks   == count \div poollen
  IN  <<pool[(count % poollen) + 1]>> \o Ticks(ticks)

\* State.encode_constant_sign
encode_constant_sign(st, symbol) ==
  [state |-> st, ret |-> CONSTANT_SIGNS.mapping[symbol[1]]]

\* State.encode_numerical_variable that does not record the code it gives out
encode_numerical_variable_unrecorded(st, symbol) ==
  IF HasCode(st.numerical_variables, symbol)
  THEN [state |-> st, ret |-> st.numerical_variables[symbol]]
  ELSE [state |-> st, ret |-> PrimeAt(PRIME_OFFSET + DictLen(st.numerical_variables))]

\* State.encode_numerical_variable
encode_numerical_variable(st, symbol) ==
  IF HasCode(st.numerical_variables, symbol)
  THEN [state |-> st, ret |-> st.numerical_variables[symbol]]
  ELSE LET gnum == PrimeAt(PRIME_OFFSET + DictLen(st.numerical_variables))
       IN  [state |-> [st EXCEPT !.numerical_variables = Put(@, symbol, gnum)],
            ret   |-> gnum]

\* State.encode_sentntial_variable
encode_sentntial_variable(st, symbol) ==
  IF HasCode(st.sentntial_variables, symbol)
  THEN [state |-> st, ret |-> st.sentntial_variables[symbol]]
  ELSE LET p    == PrimeAt(PRIME_OFFSET + DictLen(st.sentntial_variables))
           gnum == p * p
       IN  [state |-> [st EXCEPT !.sentntial_variables = Put(@, symbol, gnum)],
            ret   |-> gnum]

\* State.encode_predicate_variable: it reads and writes sentntial_variables
encode_predicate_variable(st, symbol) ==
  IF HasCode(st.sentntial_variables, symbol)
  THEN [state |-> st, ret |-> st.sentntial_variables[symbol]]
  ELSE LET p    == PrimeAt(PRIME_OFFSET + DictLen(st.sentntial_variables))
           gnum == p * p * p
       IN  [state |-> [st EXCEPT !.sentntial_variables = Put(@, symbol, gnum)],
            ret   |-> gnum]

\* State.decode_numerical_variable
decode_numerical_variable(st, gnum) ==
  IF HasName(st.numerical_variables, gnum)
  THEN [state |-> st, ret |-> st.numerical_variables[gnum]]
  ELSE LET symbol == next_var_name(st.numerical_variables, NUMERICAL_VARIABLES)
       IN  [state |-> [st EXCEPT !.numerical_variables = Put(@, gnum, symbol)],
            ret   |-> symbol]

\* State.decode_sentential_variable
decode_sentential_variable(st, gnum) ==
  IF HasName(st.sentntial_variables, gnum)
  THEN [state |-> st, ret |-> st.sentntial_variables[gnum]]
  ELSE LET symbol == next_var_name(st.sentntial_variables, SENTNTIAL_VARIABLES)
       IN  [state |-> [st EXCEPT !.sentntial_variables = Put(@, gnum, symbol)],
            ret   |-> symbol]

\* State.decode_predicate_variable naming from the sentential pool
decode_predicate_variable_sentential_pool(st, gnum) ==
  IF HasName(st.predicate_variables, gnum)
  THEN [state |-> st, ret |-> st.predicate_variables[gnum]]
  ELSE LET symbol == next_var_name(st.predicate_variables, SENTNTIAL_VARIABLES)
       IN  [state |-> [st EXCEPT !.predicate_variables = Put(@, gnum, symbol)],
            ret   |-> symbol]

\* State.decode_predicate_variable reading and writing sentntial_variables, as
\* State.encode_predicate_variable does
decode_predicate_variable_shared_dict(st, gnum) ==
  IF HasName(st.sentntial_variables, gnum)
  THEN [state |-> st, ret |-> st.sentntial_variables[gnum]]
  ELSE LET symbol == next_var_name(st.sentntial_variables, PREDICATE_VARIABLES)
       IN  [state |-> [st EXCEPT !.sentntial_variables = Put(@, gnum, symbol)],
            ret   |-> symbol]

\* State.decode_predicate_variable
decode_predicate_variable(st, gnum) ==
  IF HasName(st.predicate_variables, gnum)
  THEN [state |-> st, ret |-> st.predicate_variables[gnum]]
  ELSE LET symbol == next_var_name(st.predicate_variables, PREDICATE_VARIABLES)
       IN  [state |-> [st EXCEPT !.predicate_variables = Put(@, gnum, symbol)],
            ret   |-> symbol]

(***************************************************************************)
(* Goedel numbers: sign and bag of prime factors                           *)
(***************************************************************************)
\* the integers 0 and 1
NumZero == [sign |-> 0, pf |-> EmptyBag]
NumOne  == [sign |-> 1, pf |-> EmptyBag]

\* PRIME[idx] ** gnum, the base a prime and gnum >= 0
NumPow(p, gnum) == [sign |-> 1, pf |-> IF gnum > 0 THEN (p :> gnum) ELSE EmptyBag]

\* product *= n
NumMul(a, b) ==
  IF a.sign * b.sign = 0 THEN NumZero
  ELSE [sign |-> a.sign * b.sign, pf |-> a.pf (+) b.pf]

\* util/arithmetic.py: the loop of prod, from element k on
RECURSIVE ProdLoop(_, _, _)
ProdLoop(iterable, k, product) ==
  IF k > Len(iterable) THEN product
  ELSE ProdLoop(iterable, k + 1, NumMul(product, iterable[k]))

\* util/arithmetic.py: prod
prod(iterable) == ProdLoop(iterable, 1, NumOne)

\* the members of a finite set of integers in ascending order
RECURSIVE Ascending(_)
Ascending(S) ==
  IF S = {} THEN << >>
  ELSE LET m == CHOOSE x \in S : \A y \in S : x <= y
       IN  <<m>> \o Ascending(S \ {m})

\* ((k, len(list(v))) for k, v in groupby(factor(number))): factor divides the
\* primes out in ascending order, and its loop "while factor <= n" never runs
\* for n < 2
GroupedFactors(num) ==
  IF num.sign < 1 THEN << >>
  ELSE LET ps == Ascending(BagToSet(num.pf))
       IN  [k \in DOMAIN ps |-> <<ps[k], CopiesIn(ps[k], num.pf)>>]

(***************************************************************************)
(* godel.py: encode and decode                                             *)
(***************************************************************************)
\* lexmap[token_type](lexeme)
lexmap(token_type, st, lexeme) ==
  CASE token_type = constant_type  -> encode_constant_sign(st, lexeme)
    [] token_type = numerical_type -> encode_numerical_variable(st, lexeme)
    [] token_type = sentntial_type -> encode_sentntial_variable(st, lexeme)
    [] token_type = predicate_type -> encode_predicate_variable(st, lexeme)

\* prod(PRIME[idx]**gnum for idx, gnum in enumerate(state.encoding))
GodelNumber(encoding) ==
  prod([k \in DOMAIN encoding |-> NumPow(PrimeAt(k - 1), encoding[k])])

\* the test of decode with "<" for "!="
PrimeMismatch_less(i, f) == PrimeAt(i) > f

\* "if PRIME[i] != f" of decode
PrimeMismatch(i, f) == PrimeAt(i) # f

\* decode: the symbol of the code gnum, or the ValueError
decode_symbol(st, gnum) ==
  LET bad == [raised |-> TRUE, error |-> "ValueError", what |-> "code", gnum |-> gnum]
      Ok(r) == [raised |-> FALSE, state |-> r.state, symbol |-> r.ret]
  IN  IF gnum \in DOMAIN CONSTANT_SIGNS.inverse /\ CONSTANT_SIGNS.inverse[gnum] # ""
      THEN [raised |-> FALSE, state |-> st, symbol |-> <<CONSTANT_SIGNS.inverse[gnum]>>]
      ELSE IF InPRIME(gnum) THEN Ok(decode_numerical_variable(st, gnum))
      ELSE LET fs == Factor(gnum)
           IN  IF Cardinality({ fs[k] : k \in DOMAIN fs }) # 1 THEN bad
               ELSE IF Len(fs) = 2 /\ InPRIME(fs[1])
                    THEN Ok(decode_sentential_variable(st, gnum))
               ELSE IF Len(fs) = 3 /\ InPRIME(fs[1])
                    THEN Ok(decode_predicate_variable(st, gnum))
               ELSE bad

\* ''.join(symbols)
RECURSIVE Join(_)
Join(syms) == IF syms = << >> THEN << >> ELSE Head(syms) \o Join(Tail(syms))

(***************************************************************************)
(* State of the model                                                      *)
(***************************************************************************)
VARIABLES
  pc,       \* where control is: "encode", "encode_loop", "decode", "decode_loop",
            \* "main" (between two calls), "raised" (an exception left the call)
  plan,     \* the functions the caller still has to call, each on the last result
  string,   \* encode's argument
  number,   \* decode's argument
  state,    \* the State object of the running call
  tokens,   \* encode: the tokens Lexer.scan returned
  factors,  \* decode: the grouped factors of number
  symbols,  \* decode: the symbols recovered so far
  returns,  \* the calls completed so far: [fn, arg, raised, value]
  util      \* the call of a helper of util/: [fn, arg, raised, ret]; neither
            \* sieve nor factor has a statement that raises

vars == <<pc, plan, string, number, state, tokens, factors, symbols, returns, util>>

codecVars == <<pc, plan, string, number, state, tokens, factors, symbols, returns>>

(***************************************************************************)
(* Inputs                                                                  *)
(***************************************************************************)
\* tokens the generated valid strings are made of
TokenAlphabet ==
  { <<"0">>, <<"x">>, <<"y">>, <<"z">>, <<"x", "'">>, <<"p">>, <<"P">> }

\* every string of at most k tokens of TokenAlphabet
RECURSIVE TokenStrings(_)
TokenStrings(k) ==
  IF k = 0 THEN { << >> }
  ELSE LET S == TokenStrings(k - 1)
       IN  S \cup { s \o t : s \in S, t \in TokenAlphabet }

\* the two strings godel.py encodes when run as a program, and strings with four
\* and more variables of one class
DemoStrings ==
  { <<"0", "=", "0">>,
    <<"(", "E", "p", "P", "x", ")", "(", "x", "=", "s", "y", ")">>,
    <<"x", "y", "x", "z">>,
    <<"x", "y", "z", "x", "'", "y", "'", "x">>,
    <<"z", "'", "'", "y", "x", "'", "z", "y">>,
    <<"p", "q", "P", "Q">>,
    <<"P", "p", "Q", "q", "P", "r", "p", "'">>,
    <<"p", "q", "r", "p", "'", "P", "Q", "R", "P", "'">> }

\* characters of the strings generated for the lexer; "#" belongs to no class
LexAlphabet == { "0", "x", "'", "#", "P" }

\* every string of at most k characters of LexAlphabet
RECURSIVE CharStrings(_)
CharStrings(k) ==
  IF k = 0 THEN { << >> }
  ELSE LET S == CharStrings(k - 1)
       IN  S \cup { Append(s, c) : s \in S, c \in LexAlphabet }

\* a tail the lexer cannot match, of n characters
TailPattern == <<"#", "0", "x", "'", "=", "p", "#">>
LexTail(n) == [k \in 1..n |-> TailPattern[((k - 1) % Len(TailPattern)) + 1]]

EncodeInputs ==
  TokenStrings(MaxTokens) \cup DemoStrings \cup CharStrings(MaxChars)
    \cup { s \o LexTail(n) : s \in CharStrings(MaxChars - 1), n \in 1..MaxTail }

\* the product of PRIME[k - 1] ** codes[k]
NumOfCodes(codes) ==
  [sign |-> 1,
   pf   |-> [q \in { PrimeAt(k - 1) : k \in { j \in DOMAIN codes : codes[j] > 0 } } |->
               codes[CHOOSE k \in DOMAIN codes : PrimeAt(k - 1) = q]]]

\* exponents of the generated products: none, constant signs, a variable,
\* and a code of no class
SomeExponents == { 0, 2, 6, 13, 14 }

\* codes a decode session is run on: numerical, sentential and predicate
SessionCodes == { 13, 17, 19, 23, 169, 289, 2197 }

\* every sequence of at most k members of S
RECURSIVE SeqsUpTo(_, _)
SeqsUpTo(S, k) ==
  IF k = 0 THEN { << >> }
  ELSE LET T == SeqsUpTo(S, k - 1)
       IN  T \cup { Append(s, c) : s \in T, c \in S }

\* sequences of codes with four and more variables of each class
DemoCodes ==
  { <<169, 289, 361, 529, 169, 841>>,
    <<2197, 4913, 6859, 12167, 2197, 13, 169>>,
    <<6, 5, 6>>, <<27, 25, 4, 8>>, <<13, 16>>, <<13, 3481>> }

DecodeInputs ==
  LET products == { NumOfCodes(e) : e \in [1..DecPrimes -> SomeExponents] }
  IN  products
        \cup { [n EXCEPT !.sign = -1] : n \in { m \in products : m.pf = EmptyBag \/ DOMAIN m.pf = {2} } }
        \cup { NumZero, [sign |-> 1, pf |-> (61 :> 1)], [sign |-> 1, pf |-> (2 :> 13) @@ (61 :> 6)] }
        \cup { NumOfCodes(c) : c \in SeqsUpTo(SessionCodes, DecPositions) \cup DemoCodes }

(***************************************************************************)
(* Actions: godel.py                                                       *)
(***************************************************************************)
\* the running call returns value to its caller
Return(fn, a, value) ==
  /\ returns' = Append(returns, [fn |-> fn, arg |-> a, raised |-> FALSE, value |-> value])
  /\ pc' = "main"

\* the running call raises exc, which nothing catches
Raise(fn, a, exc) ==
  /\ returns' = Append(returns, [fn |-> fn, arg |-> a, raised |-> TRUE, value |-> exc])
  /\ pc' = "raised"

\* encode, up to its loop: the empty string, State(), Lexer().scan(string)
EncodeStart ==
  /\ pc = "encode"
  /\ IF Len(string) = 0
     THEN /\ Return("encode", string, NumZero)
          /\ UNCHANGED <<state, tokens>>
     ELSE LET r == scan(string)
          IN  /\ state' = NewState
              /\ IF r.raised
                 THEN /\ Raise("encode", string, [error |-> r.error, near |-> r.near])
                      /\ UNCHANGED tokens
                 ELSE /\ tokens' = r.tokens
                      /\ pc' = "encode_loop"
                      /\ UNCHANGED returns
  /\ UNCHANGED <<plan, string, number, factors, symbols, util>>

\* one turn of encode's loop over the tokens
EncodeToken ==
  /\ pc = "encode_loop"
  /\ Len(state.encoding) < Len(tokens)
  /\ LET token == tokens[Len(state.encoding) + 1]
         r     == lexmap(token[1], state, token[2])
     IN  state' = [r.state EXCEPT !.encoding = Append(@, r.ret)]
  /\ UNCHANGED <<pc, plan, string, number, tokens, factors, symbols, returns, util>>

\* encode, after its loop: the product
EncodeReturn ==
  /\ pc = "encode_loop"
  /\ Len(state.encoding) = Len(tokens)
  /\ Return("encode", string, GodelNumber(state.encoding))
  /\ UNCHANGED <<plan, string, number, state, tokens, factors, symbols, util>>

\* decode, up to its loop: zero, State(), the grouped factors
DecodeStart ==
  /\ pc = "decode"
  /\ IF number.sign = 0
     THEN /\ Return("decode", number, << >>)
          /\ UNCHANGED <<state, factors, symbols>>
     ELSE /\ state' = NewState
          /\ symbols' = << >>
          /\ factors' = GroupedFactors(number)
          /\ pc' = "decode_loop"
          /\ UNCHANGED returns
  /\ UNCHANGED <<plan, string, number, tokens, util>>

\* one turn of decode's loop over the grouped factors
DecodePosition ==
  /\ pc = "decode_loop"
  /\ Len(symbols) < Len(factors)
  /\ LET i    == Len(symbols)
         f    == factors[i + 1][1]
         gnum == factors[i + 1][2]
         r    == decode_symbol(state, gnum)
     IN  IF PrimeMismatch(i, f)
         THEN /\ Raise("decode", number,
                       [error |-> "ValueError", what |-> "prime", index |-> i,
                        found |-> f, expected |-> PrimeAt(i)])
              /\ UNCHANGED <<state, symbols>>
         ELSE IF r.raised
         THEN /\ Raise("decode", number,
                       [error |-> r.error, what |-> r.what, index |-> i, gnum |-> r.gnum])
              /\ UNCHANGED <<state, symbols>>
         ELSE /\ state' = r.state
              /\ symbols' = Append(symbols, r.symbol)
              /\ UNCHANGED <<pc, returns>>
  /\ UNCHANGED <<plan, string, number, tokens, factors, util>>

\* decode, after its loop: the joined symbols
DecodeReturn ==
  /\ pc = "decode_loop"
  /\ Len(symbols) = Len(factors)
  /\ Return("decode", number, Join(symbols))
  /\ UNCHANGED <<plan, string, number, state, tokens, factors, symbols, util>>

\* the caller hands the last result to the next function, as the program's
\* main section does with encode and decode
Call ==
  /\ pc = "main"
  /\ plan # << >>
  /\ LET last == returns[Len(returns)].value
     IN  IF Head(plan) = "encode"
         THEN string' = last /\ pc' = "encode" /\ UNCHANGED number
         ELSE number' = last /\ pc' = "decode" /\ UNCHANGED string
  /\ plan' = Tail(plan)
  /\ UNCHANGED <<state, tokens, factors, symbols, returns, util>>

(***************************************************************************)
(* Actions: util/.  Each behaviour is one call of one helper.               *)
(***************************************************************************)
\* the names of the items of the generated dicts
ItemKeys == <<"a", "b", "c", "d", "e">>

\* every list of at most k items with distinct keys, values in 1..MaxItems
RECURSIVE ItemLists(_)
ItemLists(k) ==
  IF k = 0 THEN { << >> }
  ELSE LET S == ItemLists(k - 1)
       IN  S \cup { Append(s, <<ItemKeys[a], v>>) :
                      s \in S, a \in 1..MaxItems, v \in 1..MaxItems }

HasDistinctKeys(items) ==
  \A i, j \in DOMAIN items : items[i][1] = items[j][1] => i = j

CallSieve ==
  /\ util.fn = "none"
  /\ \E n \in (-2)..MaxSieveArg : util' = [fn |-> "sieve", arg |-> n, raised |-> FALSE, ret |-> Sieve(n)]
  /\ UNCHANGED codecVars

CallFactor ==
  /\ util.fn = "none"
  /\ \E n \in (-MaxFactorArg)..MaxFactorArg :
       util' = [fn |-> "factor", arg |-> n, raised |-> FALSE, ret |-> Factor(n)]
  /\ UNCHANGED codecVars

NewBijection ==
  /\ util.fn = "none"
  /\ \E items \in { s \in ItemLists(MaxItems) : HasDistinctKeys(s) } :
       util' = [fn |-> "Bijection", arg |-> items,
                raised |-> BijectionInit(items).raised, ret |-> BijectionInit(items)]
  /\ UNCHANGED codecVars

(***************************************************************************)
(* Specifications                                                          *)
(***************************************************************************)
Idle ==
  /\ state = NewState /\ tokens = << >> /\ factors = << >> /\ symbols = << >>
  /\ returns = << >> /\ util = [fn |-> "none"]

\* encode(s), decode of the result, encode of that
Init ==
  /\ pc = "encode" /\ plan = <<"decode", "encode">>
  /\ string \in EncodeInputs /\ number = NumZero
  /\ Idle

Next ==
  \/ EncodeStart \/ EncodeToken \/ EncodeReturn
  \/ DecodeStart \/ DecodePosition \/ DecodeReturn
  \/ Call

Spec == Init /\ [][Next]_vars

\* decode(n)
InitDecode ==
  /\ pc = "decode" /\ plan = << >>
  /\ string = << >> /\ number \in DecodeInputs
  /\ Idle

NextDecode == DecodeStart \/ DecodePosition \/ DecodeReturn

SpecDecode == InitDecode /\ [][NextDecode]_vars

\* the helpers of util/
InitUtil ==
  /\ pc = "main" /\ plan = << >>
  /\ string = << >> /\ number = NumZero
  /\ Idle

NextUtil == CallSieve \/ CallFactor \/ NewBijection

SpecUtil == InitUtil /\ [][NextUtil]_vars

(***************************************************************************)
(* Vocabulary of the properties                                            *)
(***************************************************************************)
VarLetters ==
  match_any(NUMERICAL_VARIABLES) \cup match_any(SENTNTIAL_VARIABLES)
    \cup match_any(PREDICATE_VARIABLES)

\* the pool of letters of a token type
PoolOf(type) ==
  CASE type = numerical_type -> NUMERICAL_VARIABLES
    [] type = sentntial_type -> SENTNTIAL_VARIABLES
    [] type = predicate_type -> PREDICATE_VARIABLES

\* the k-th name (k from 0) of a pool: its letter k mod K, then k div K ticks
VarName(k, pool) ==
  <<pool[(k % Len(pool)) + 1]>> \o [j \in 1..(k \div Len(pool)) |-> TICK]

\* the positions of s no token can start at or cover
Unmatched(s) ==
  { i \in DOMAIN s :
      \/ s[i] \notin ConstantChars \cup VarLetters \cup {TICK}
      \/ s[i] = TICK /\ (i = 1 \/ s[i - 1] \notin VarLetters \cup {TICK}) }

\* the first occurrence of the item at position k of a sequence
First(seq, k) == CHOOSE j \in 1..k : seq[j] = seq[k] /\ \A h \in 1..(j - 1) : seq[h] # seq[k]

\* the tokens of a type met before position k, as a set of lexemes
SeenBefore(toks, k, type) == { toks[j][2] : j \in { h \in 1..(k - 1) : toks[h][1] = type } }

\* a string whose variables first appear, class by class, in the order of the
\* names of the class's pool
Canonical(toks) ==
  \A k \in DOMAIN toks :
    toks[k][1] # constant_type =>
      toks[k][2] = VarName(Cardinality(SeenBefore(toks, First(toks, k), toks[k][1])),
                           PoolOf(toks[k][1]))

\* the class of a code, as the numbering defines it
ClassOfCode(gnum) ==
  IF gnum \in 1..MAX THEN constant_type
  ELSE IF \E k \in DOMAIN PRIME : PRIME[k] = gnum THEN numerical_type
  ELSE IF \E k \in DOMAIN PRIME : PRIME[k] * PRIME[k] = gnum THEN sentntial_type
  ELSE IF \E k \in DOMAIN PRIME : PRIME[k] * PRIME[k] * PRIME[k] = gnum THEN predicate_type
  ELSE "none"

IsPrime(p) == p > 1 /\ \A d \in 2..(p - 1) : p % d # 0

\* the distinct prime factors of a number are not PRIME[0], ..., PRIME[k-1]
Malformed(num) ==
  /\ num.sign = 1
  /\ num.pf # EmptyBag
  /\ BagToSet(num.pf) # { PrimeAt(i) : i \in 0..(Cardinality(BagToSet(num.pf)) - 1) }

\* the first position whose prime is missing
FirstGap(num) ==
  CHOOSE i \in 0..Cardinality(BagToSet(num.pf)) :
    /\ PrimeAt(i) \notin BagToSet(num.pf)
    /\ \A h \in 0..(i - 1) : PrimeAt(h) \in BagToSet(num.pf)

\* the first position that is not as a Goedel number has it: its prime is
\* missing, or the exponent of its prime is the code of nothing
FirstOffending(num) ==
  CHOOSE i \in 0..FirstGap(num) :
    /\ i = FirstGap(num) \/ ClassOfCode(CopiesIn(PrimeAt(i), num.pf)) = "none"
    /\ \A h \in 0..(i - 1) : ClassOfCode(CopiesIn(PrimeAt(h), num.pf)) # "none"

(***************************************************************************)
(* Round trips                                                             *)
(***************************************************************************)
\* C1 as stated: for every string s of valid tokens, decode(encode(s)) = s
C1_RoundTripAnyString ==
  Len(returns) >= 2 => ~returns[2].raised /\ returns[2].value = returns[1].arg

\* C1, amended: decode(encode(s)) = s for every string s of valid tokens whose
\* variables first appear, class by class, in the order of the names the decoder
\* gives out (pool[k mod 3] followed by k div 3 ticks for the k-th)
C1_RoundTripCanonical ==
  Len(returns) >= 2 =>
    /\ ~returns[2].raised
    /\ Canonical(scan(returns[1].arg).tokens) => returns[2].value = returns[1].arg

C1_Witness ==
  /\ Len(returns) >= 2
  /\ ~returns[2].raised
  /\ returns[2].value = returns[1].arg
  /\ \E i, j, k \in DOMAIN returns[1].arg :
       /\ returns[1].arg[i] = TICK
       /\ returns[1].arg[j] = "p"
       /\ returns[1].arg[k] = "P"

\* C2: for every string s of valid tokens, decode(encode(s)) does not raise, its
\* result tokenizes, and encode(decode(encode(s))) = encode(s)
C2_ReencodeRoundTrip ==
  /\ pc = "raised" => Len(returns) = 1
  /\ Len(returns) >= 2 => ~returns[2].raised
  /\ Len(returns) >= 3 => ~returns[3].raised /\ returns[3].value = returns[1].value

C2_Witness ==
  /\ Len(returns) = 3
  /\ returns[3].value = returns[1].value
  /\ returns[2].value # returns[1].arg
  /\ \E j, k \in DOMAIN returns[1].arg :
       returns[1].arg[j] = "p" /\ returns[1].arg[k] = "P"

(***************************************************************************)
(* Rejections                                                              *)
(***************************************************************************)
\* C3: decode of a number n >= 2 whose distinct prime factors are not
\* PRIME[0], ..., PRIME[k-1] raises at the first offending position, and
\* no string is returned
C3_MalformedRejected ==
  Malformed(number) /\ pc \in {"decode_loop", "main", "raised"} =>
    /\ pc # "main"
    /\ Len(symbols) <= FirstOffending(number)
    /\ pc = "raised" =>
         /\ Len(returns) = 1
         /\ returns[1].raised
         /\ returns[1].value.error = "ValueError"
         /\ returns[1].value.index = FirstOffending(number)
         /\ returns[1].value.what = "prime" =>
              /\ returns[1].value.index = FirstGap(number)
              /\ returns[1].value.expected = PrimeAt(FirstGap(number))
              /\ returns[1].value.found \in BagToSet(number.pf)

C3_Witness ==
  /\ Malformed(number)
  /\ pc = "raised"
  /\ returns[1].value.what = "prime"
  /\ returns[1].value.index = 1
  /\ returns[1].value.found = 5
  /\ CopiesIn(2, number.pf) = 6

\* C4: encode of a non-empty string with a position no token matches raises
\* LexicalException with the unmatched remainder cut to 10 characters, before
\* any code is assigned and without returning a number
C4_LexicalRejection ==
  Unmatched(string) # {} =>
    LET first == CHOOSE i \in Unmatched(string) : \A j \in Unmatched(string) : i <= j
        rest  == SubSeq(string, first, Len(string))
    IN  /\ pc \in {"encode", "raised"}
        /\ state = NewState
        /\ tokens = << >>
        /\ pc = "encode" => returns = << >>
        /\ pc = "raised" =>
             /\ Len(returns) = 1
             /\ returns[1].raised
             /\ returns[1].value =
                  [error |-> "LexicalException",
                   near  |-> IF Len(rest) > 10 THEN SubSeq(rest, 1, 10) ELSE rest]

C4_Witness ==
  /\ pc = "raised"
  /\ Unmatched(string) # {}
  /\ \A i \in 1..2 : i \notin Unmatched(string)
  /\ Len(string) > 12
  /\ Len(returns[1].value.near) = 10

(***************************************************************************)
(* util/                                                                   *)
(***************************************************************************)
\* C5: sieve(n) is the ascending list of the primes strictly below n
C5_SievePrimesBelow ==
  util.fn = "sieve" =>
    util.ret = Ascending({ p \in 2..(util.arg - 1) : IsPrime(p) })

\* C6: factor(n) fails with a domain error for every n < 1
C6_FactorDomainError ==
  util.fn = "factor" /\ util.arg < 1 => util.raised

\* C7: Bijection(m) raises exactly when two keys of m have the same value;
\* otherwise mapping is m and inverse is m with every pair swapped, so that
\* inverse[mapping[k]] = k and mapping[inverse[v]] = v
C7_Bijection ==
  util.fn = "Bijection" =>
    LET items  == util.arg
        keys   == { items[i][1] : i \in DOMAIN items }
        values == { items[i][2] : i \in DOMAIN items }
        r      == util.ret
    IN  /\ r.raised <=> \E i, j \in DOMAIN items : i # j /\ items[i][2] = items[j][2]
        /\ ~r.raised =>
             /\ DOMAIN r.mapping = keys
             /\ DOMAIN r.inverse = values
             /\ \A i \in DOMAIN items :
                  /\ r.mapping[items[i][1]] = items[i][2]
                  /\ r.inverse[items[i][2]] = items[i][1]
             /\ \A k \in keys : r.inverse[r.mapping[k]] = k
             /\ \A v \in values : r.mapping[r.inverse[v]] = v

C7_Witness ==
  /\ util.fn = "Bijection"
  /\ ~util.ret.raised
  /\ Len(util.arg) = 3
  /\ util.arg[1][2] > util.arg[2][2]

(***************************************************************************)
(* Sessions                                                                *)
(***************************************************************************)
\* C8: in an encode session a predicate variable met for the first time gets
\* PRIME[PRIME_OFFSET + c] cubed, c the number of distinct predicate variables
\* met before it, whatever sentential and numerical variables were met
C8_PredicateOwnCount ==
  pc = "encode_loop" =>
    \A k \in DOMAIN state.encoding :
      tokens[k][1] = predicate_type /\ First(tokens, k) = k =>
        LET p == PrimeAt(PRIME_OFFSET + Cardinality(SeenBefore(tokens, k, predicate_type)))
        IN  state.encoding[k] = p * p * p

\* C9: in a decode session the k-th distinct code of a class (k from 0) is named
\* pool[k mod 3] followed by k div 3 ticks, pool and k being the class's own,
\* and a code met again gets the name it got first
C9_DecodeNames ==
  pc = "decode_loop" =>
    LET codes == [k \in DOMAIN factors |-> factors[k][2]]
        SameClassBefore(k) ==
          { codes[j] : j \in { h \in 1..(k - 1) : ClassOfCode(codes[h]) = ClassOfCode(codes[k]) } }
    IN  \A k \in DOMAIN symbols :
          ClassOfCode(codes[k]) \in {numerical_type, sentntial_type, predicate_type} =>
            /\ symbols[k] = VarName(Cardinality(SameClassBefore(First(codes, k))),
                                    PoolOf(ClassOfCode(codes[k])))
            /\ symbols[k] = symbols[First(codes, k)]

C9_Witness ==
  /\ pc = "decode_loop"
  /\ Len(symbols) = 7
  /\ symbols[4] = <<"P", "'">>
  /\ symbols[5] = <<"P">>
  /\ symbols[6] = <<"x">>
  /\ symbols[7] = <<"p">>

\* C10: in an encode call two tokens get the same code exactly when they are the
\* same lexeme; the distinct lexemes of a class get growing codes in the order
\* they are first met, the numerical ones PRIME[PRIME_OFFSET], PRIME[PRIME_OFFSET
\* + 1], ...; and every code of a variable is above every code of a constant sign
C10_CodesFollowLexemes ==
  pc = "encode_loop" =>
    \A k \in DOMAIN state.encoding :
      /\ \A j \in DOMAIN state.encoding :
           /\ state.encoding[j] = state.encoding[k] <=> tokens[j][2] = tokens[k][2]
           /\ ( /\ j < k /\ tokens[j][1] = tokens[k][1] /\ tokens[k][1] # constant_type
                /\ First(tokens, j) = j /\ First(tokens, k) = k )
                => state.encoding[j] < state.encoding[k]
      /\ tokens[k][1] = numerical_type =>
           state.encoding[k] =
             PrimeAt(PRIME_OFFSET
                       + Cardinality(SeenBefore(tokens, First(tokens, k), numerical_type)))
      /\ tokens[k][1] # constant_type =>
           \A c \in ConstantChars : state.encoding[k] > CONSTANT_SIGNS.mapping[c]

C10_Witness ==
  /\ pc = "encode_loop"
  /\ string = <<"x", "y", "x", "z">>
  /\ state.encoding = <<13, 17, 13, 19>>

====
